---- MODULE Spec2Model ----
(***************************************************************************)
(* Model of the throttle conditioners (ebike-controller/src/throttle.c:    *)
(* the analog path and the pulse-rate path) and of the execution contexts  *)
(* of ebike-g4/src/main.c: the two periodic interrupt handlers, run to     *)
(* completion and under preemption, and the infinite loop of main();       *)
(* further the bootloader entry of main.c, the input type switch of        *)
(* throttle.c, and the sensor-edge handler and the commissioning routine   *)
(* of the Rotor Estimator.                                                 *)
(*                                                                         *)
(* Fixed-point representation of the float quantities:                     *)
(*   voltages        : integer multiples of 0.01 V   (1.0 V  = 100)        *)
(*   throttle command: integer multiples of 0.0025   (1.0    = 400)        *)
(*   scale_factor    : CmdOne * SfDen / (max - min), so that               *)
(*                     command = (Y - min) * scale_factor / SfDen          *)
(***************************************************************************)
EXTENDS Integers, Sequences, FiniteSets, TLC

(***************************************************************************)
(* Resolution of the fixed-point representation.                           *)
(***************************************************************************)
CmdOne == 400
SfDen == 1000

(***************************************************************************)
(* Program constants, in the units above.                                  *)
(***************************************************************************)
THROTTLE_OUTPUT_MIN == 0
THROTTLE_OUTPUT_MAX == 396
THROTTLE_MIN_DEFAULT == 85
THROTTLE_MAX_DEFAULT == 220
\* Sane absolute ranges tested at the end of calibration (throttle.c 118, 124)
MinSaneLow == 30
MinSaneHigh == 100
MaxSaneLow == 150
MaxSaneHigh == 300
\* Constants of throttle.h
THROTTLE_RANGE_LIMIT == 5
THROTTLE_DROPOUT == 72
THROTTLE_HYST_LOW == 10
THROTTLE_HYST_HIGH == 12
THROTTLE_SLEW_RATE == 16
\* Length of the startup sequence, in calls (scaled down from 1000 / 500)
THROTTLE_START_TIME == 4
THROTTLE_START_DEADTIME == 2

(***************************************************************************)
(* Inputs: the filter output Throttle_filt.Y of one call, and the supply   *)
(* reference adcGetVref() read when calibration completes.                 *)
(***************************************************************************)
Volts == {60, 88, 89, 100, 320}
Vrefs == {330, 200}

VARIABLES
    sThrottle,      \* the analog channel: startup_count, min, max, scale_factor, state
    prev_output,    \* last output value, used for rate limiting
    Throttle_filt,  \* Throttle_filt.Y, the filtered input of the last call
    ret,            \* value returned by the last call of throttle_process
    call,           \* what the last call did (history of one call)
    win             \* the samples the running calibration has accumulated

tvars == <<sThrottle, prev_output, Throttle_filt, ret, call, win>>

NoCall == [kind |-> "none", calibrated |-> FALSE, raised |-> FALSE, clamped |-> -1,
           raw_min |-> -1, cal_min |-> -1, raw_max |-> -1, cal_max |-> -1,
           win_n |-> 0, win_sum |-> 0, win_skipped |-> 0, win_acc0 |-> 0]
NoWin == [n |-> 0, sum |-> 0, skipped |-> 0, acc0 |-> 0]

\* Line 103: does the call whose incremented count is cnt add its sample?
Accumulates(cnt) == cnt >= THROTTLE_START_DEADTIME

\* Mutant: the count is not advanced when calibration completes
CountAfterCalib_Stuck(cnt) == cnt

\* Line 115: the count after the call that completes calibration
CountAfterCalib(cnt) == cnt + 1

\* Line 117: the accumulator divided by the length of the averaging window
WindowAverage(acc) == acc \div (THROTTLE_START_TIME - THROTTLE_START_DEADTIME)

\* Mutant: the averaged minimum is taken without the range check
CalibMin_NoCheck(avg) == avg

\* Lines 118-121: range check of the minimum position
CalibMin(avg) ==
    IF (avg > MinSaneHigh) \/ (avg < MinSaneLow) THEN THROTTLE_MIN_DEFAULT ELSE avg

\* Mutant: the estimated maximum is taken without the range check
CalibMax_NoCheck(m) == m

\* Lines 123-127: range check of the maximum position
CalibMax(m) ==
    IF (m > MaxSaneHigh) \/ (m < MaxSaneLow) THEN THROTTLE_MAX_DEFAULT ELSE m

\* Lines 129 and 145: 1 / (max - min)
ScaleFactor(max, min) == (CmdOne * SfDen) \div (max - min)

\* Mutant: the guard margin is left out of the lower range test
BelowRange_NoMargin(y, min) == y < min

\* Line 135: input below the recorded minimum
BelowRange(y, min) == y < (min - THROTTLE_RANGE_LIMIT)

\* Line 142: input above the recorded maximum
AboveRange(y, max) == y > (max + THROTTLE_RANGE_LIMIT)

\* Mutant: the maximum is raised but the scale factor is not recomputed
MaxUpdate_StaleScale(y, max, min, sf) ==
    IF y > (max + THROTTLE_RANGE_LIMIT) THEN <<y, sf>> ELSE <<max, sf>>

\* Lines 142-146: <<max, scale_factor>> after the in-place update of the maximum
MaxUpdate(y, max, min, sf) ==
    IF AboveRange(y, max) THEN <<y, ScaleFactor(y, min)>> ELSE <<max, sf>>

\* Line 148: (Y - min) * scale_factor
RawCommand(y, min, sf) == ((y - min) * sf) \div SfDen

\* Mutant: the command is clipped at 0% only
Clip_NoUpper(c) == IF c < THROTTLE_OUTPUT_MIN THEN THROTTLE_OUTPUT_MIN ELSE c

\* Lines 150-151: clip at 0% and 100%
Clip(c) ==
    LET lo == IF c < THROTTLE_OUTPUT_MIN THEN THROTTLE_OUTPUT_MIN ELSE c
    IN  IF lo > THROTTLE_OUTPUT_MAX THEN THROTTLE_OUTPUT_MAX ELSE lo

\* Mutant: one threshold is used for both directions
Hysteresis_OneThreshold(state, c) ==
    IF c >= THROTTLE_HYST_HIGH THEN <<1, c>> ELSE <<0, 0>>

\* Mutant: with the latch off a command below the upper threshold passes
Hysteresis_PassWhenOff(state, c) ==
    IF state = 1
    THEN IF c <= THROTTLE_HYST_LOW THEN <<0, 0>> ELSE <<1, c>>
    ELSE IF c >= THROTTLE_HYST_HIGH THEN <<1, c>> ELSE <<0, c>>

\* Lines 152-172: hysteresis; result is <<new latch, gated command>>
Hysteresis(state, c) ==
    IF state = 1
    THEN IF c <= THROTTLE_HYST_LOW THEN <<0, 0>> ELSE <<1, c>>
    ELSE IF c >= THROTTLE_HYST_HIGH THEN <<1, c>> ELSE <<0, 0>>

\* Mutant: the output always advances by a full slew step
SlewLimit_FullStep(c, prev) ==
    IF c > prev THEN prev + THROTTLE_SLEW_RATE ELSE c

\* Lines 174-178: upward rate limit
SlewLimit(c, prev) ==
    IF c - prev > THROTTLE_SLEW_RATE THEN prev + THROTTLE_SLEW_RATE ELSE c

\* Lines 137-138: prev_output after a call that restarts the startup sequence
PrevAfterRestart(prev) == prev

\* Lines 96-108: one call of the startup sequence
throttle_startup(y) ==
    LET cnt == sThrottle.startup_count + 1
        add == Accumulates(cnt)
    IN  /\ sThrottle.startup_count < THROTTLE_START_TIME
        /\ sThrottle' = [sThrottle EXCEPT !.startup_count = cnt,
                                          !.min = IF add THEN @ + y ELSE @]
        /\ Throttle_filt' = y
        /\ ret' = 0
        /\ call' = [NoCall EXCEPT !.kind = "startup"]
        /\ win' = IF add THEN [win EXCEPT !.n = @ + 1, !.sum = @ + y]
                         ELSE [win EXCEPT !.skipped = @ + 1]
        /\ UNCHANGED prev_output

\* Lines 109-181: one call after the startup sequence
throttle_normal(y, vref) ==
    LET calib == sThrottle.startup_count = THROTTLE_START_TIME
        cnt1 == IF calib THEN CountAfterCalib(sThrottle.startup_count)
                         ELSE sThrottle.startup_count
        avg == WindowAverage(sThrottle.min)
        min1 == IF calib THEN CalibMin(avg) ELSE sThrottle.min
        est == vref - THROTTLE_DROPOUT
        max1 == IF calib THEN CalibMax(est) ELSE sThrottle.max
        sf1 == IF calib THEN ScaleFactor(max1, min1) ELSE sThrottle.scale_factor
        upd == MaxUpdate(y, max1, min1, sf1)
        clamped == Clip(RawCommand(y, min1, upd[2]))
        hy == Hysteresis(sThrottle.state, clamped)
        out == SlewLimit(hy[2], prev_output)
        done == IF calib
                THEN [NoCall EXCEPT !.calibrated = TRUE,
                                    !.raw_min = avg, !.cal_min = min1,
                                    !.raw_max = est, !.cal_max = max1,
                                    !.win_n = win.n, !.win_sum = win.sum,
                                    !.win_skipped = win.skipped, !.win_acc0 = win.acc0]
                ELSE NoCall
    IN  /\ sThrottle.startup_count >= THROTTLE_START_TIME
        /\ Throttle_filt' = y
        /\ IF BelowRange(y, min1)
           THEN /\ sThrottle' = [startup_count |-> 0, min |-> min1, max |-> max1,
                                 scale_factor |-> sf1, state |-> sThrottle.state]
                /\ prev_output' = PrevAfterRestart(prev_output)
                /\ ret' = 0
                /\ call' = [done EXCEPT !.kind = "recal"]
                /\ win' = [NoWin EXCEPT !.acc0 = min1]
           ELSE /\ sThrottle' = [startup_count |-> cnt1, min |-> min1, max |-> upd[1],
                                 scale_factor |-> upd[2], state |-> hy[1]]
                /\ prev_output' = out
                /\ ret' = out
                /\ call' = [done EXCEPT !.kind = "normal", !.clamped = clamped,
                                        !.raised = (upd[1] # max1)]
                /\ win' = NoWin

\* Lines 83-182: float throttle_process(float raw_voltage)
throttle_process(y, vref) ==
    \/ throttle_startup(y)
    \/ throttle_normal(y, vref)

\* THROTTLE_ANALOG_DEFAULTS and prev_output = 0.0f (lines 12, 17)
InitThrottle ==
    /\ sThrottle = [startup_count |-> 0, min |-> 0, max |-> 0,
                    scale_factor |-> 0, state |-> 0]
    /\ prev_output = 0
    /\ Throttle_filt = 0
    /\ ret = 0
    /\ call = NoCall
    /\ win = NoWin

(***************************************************************************)
(* The pulse-rate (pedal-assist) conditioner, throttle_pas_process.        *)
(*   filtered_speed : integer multiples of 0.001 (time_counter / 1000.0f   *)
(*                    is time_counter in this unit)                        *)
(*   scale_factor   : command units per unit of filtered_speed             *)
(***************************************************************************)
\* Pin numbers of the two throttle inputs: EXTI line 5 (Px5) and line 0 (Px0)
ADC_THR1_PIN == 5
ADC_THR2_PIN == 0
\* PAS_FILTER, the weight of the new sample, as a fraction
PAS_FILTER_NUM == 1
PAS_FILTER_DEN == 2
\* scale_factor of THROTTLE_PAS_DEFAULTS
PAS_SCALE_DEFAULT == 60
\* Largest elapsed-time count the model lets time_counter reach
MaxTime == 6

\* Calls: the thrnum argument (3 stands for any other value) and the pin level
ThrNums == {1, 2, 3}
Levels == {0, 1}
\* Inputs of the analog channel while the pulse-rate conditioner is exercised
PasVolts == {88, 150}
PasVrefs == {330}

VARIABLES
    sPasThrottle,   \* last_reading, time_counter, filtered_speed, scale_factor
    pas_ret,        \* what the last call of throttle_pas_process returned (void)
    pas_call        \* what the last call did (history of one call)

pvars == <<sPasThrottle, pas_ret, pas_call>>

NoReturn == [has |-> FALSE, val |-> 0]
NoPasCall == [thrnum |-> 0, level |-> 0, reading |-> 0, changed |-> FALSE,
              updated |-> FALSE, elapsed |-> 0, old_speed |-> 0, thr_output |-> -1]

\* Lines 189-196: current_reading = PORT->IDR & (1<<PIN), kept in a uint8_t
PinRead(thrnum, level) ==
    LET pin == IF thrnum = 1 THEN ADC_THR1_PIN ELSE ADC_THR2_PIN
    IN  (level * (2 ^ pin)) % 256

\* Line 202: is this reading a rising edge?
IsRising(reading) == reading = 1

\* Lines 204-205: the filtered speed after a rising edge
SpeedUpdate(tc, f) ==
    (tc * PAS_FILTER_NUM + f * (PAS_FILTER_DEN - PAS_FILTER_NUM)) \div PAS_FILTER_DEN

\* Lines 212-214: thr_output, clipped at 0% and 100%
PasOutput(f, scale) == Clip(f * scale)

\* The conditioner state a call for channel thrnum works on (lines 13, 199-211)
PasChannel(thrnum) == sPasThrottle

\* Mutant: the pulse-rate path is gated by the latch and resets the rate limiter
PasAnalogChannel_Gated(s, prev) == <<[s EXCEPT !.state = 0], 0>>

\* Lines 184-216: sThrottle and prev_output after one throttle_pas_process
PasAnalogChannel(s, prev) == <<s, prev>>

\* Lines 184-216: void throttle_pas_process(uint8_t thrnum)
throttle_pas_process(thrnum, level) ==
    LET rd == PinRead(thrnum, level)
        p == PasChannel(thrnum)
        changed == rd # p.last_reading
        rising == IsRising(rd)
        p1 == IF changed
              THEN IF rising
                   THEN [p EXCEPT !.last_reading = rd,
                                  !.filtered_speed = SpeedUpdate(p.time_counter, @),
                                  !.time_counter = 0]
                   ELSE [p EXCEPT !.last_reading = rd]
              ELSE [p EXCEPT !.time_counter = @ + 1]
        thr_output == PasOutput(p1.filtered_speed, p1.scale_factor)
        analog == PasAnalogChannel(sThrottle, prev_output)
    IN  /\ pas_ret' = NoReturn
        /\ sThrottle' = analog[1]
        /\ prev_output' = analog[2]
        /\ UNCHANGED <<Throttle_filt, ret, call, win>>
        /\ IF thrnum \in {1, 2}
           THEN /\ changed \/ p.time_counter < MaxTime
                /\ sPasThrottle' = p1
                /\ pas_call' = [thrnum |-> thrnum, level |-> level, reading |-> rd,
                                changed |-> changed, updated |-> (changed /\ rising),
                                elapsed |-> p.time_counter,
                                old_speed |-> p.filtered_speed,
                                thr_output |-> thr_output]
           ELSE /\ UNCHANGED sPasThrottle
                /\ pas_call' = [NoPasCall EXCEPT !.thrnum = thrnum]

\* THROTTLE_PAS_DEFAULTS (line 13)
InitPas ==
    /\ sPasThrottle = [last_reading |-> 0, time_counter |-> 0, filtered_speed |-> 0,
                       scale_factor |-> PAS_SCALE_DEFAULT]
    /\ pas_ret = NoReturn
    /\ pas_call = NoPasCall

(***************************************************************************)
(* ebike-g4/src/main.c: the fast context MAIN_MotorISR (20 kHz), the slow  *)
(* context MAIN_AppTimerISR (1 kHz) and the debug hooks.                   *)
(*   angles : integer multiples of 1/12 revolution                         *)
(*   sine, cosine, modulation vector, duties : integer multiples of 0.001  *)
(* The telemetry counter Mvar.Timestamp and LIVE_AssemblePacket are not    *)
(* part of the model.                                                      *)
(***************************************************************************)
SinTab == <<0, 500, 866, 1000, 866, 500, 0, -500, -866, -1000, -866, -500>>
AngleSteps == Len(SinTab)

\* Hall codes in forward order and the calibrated mid-interval angle of each
HallTable == [c \in {1, 3, 2, 6, 4, 5} |->
                 CASE c = 1 -> 1 [] c = 3 -> 3 [] c = 2 -> 5
                   [] c = 6 -> 7 [] c = 4 -> 9 [] c = 5 -> 11]
HallCodes == 0..7
\* The six codes of the calibration table; 0 and 7 are reserved
ValidCodes == DOMAIN HallTable
\* Speed estimates, in angle steps per fast period
Speeds == {-1, 1}
\* Torque requests THROTTLE_GetCommand can return, in command units
Commands == {0, 200}
\* Speed estimates of any sign, up to more than two revolutions per period
RotorSpeeds == {-25, -1, 1, 13}
\* Sensor edges of the preemptive model: codes and speeds
EdgeCodes == {1, 3}
EdgeSpeeds == {1}
\* Capture times of the sensor edges, in timer counts
EdgeStamps == {1}
Stamps == {1, 2}
\* Number of glitches the model counts before the count saturates
MaxGlitches == 2
\* Phase current samples <<iA, iB, iC>> of one fast period
AdcSamples == {<<5, -3, -2>>}

\* DBG_RampIncrement = FOC_RampCtrl(20000.0f, 25.0f), scaled to the angle grid
DBG_RampIncrement == 2
\* Period of the status indicator in slow ticks (scaled down from 500 and 1000)
LED_OFF_TICK == 1
LED_PERIOD == 2
DBG_FLAG_PWM_ENABLE == 1
\* main.h, line 49
RETVAL_OK == 1
\* No debug hook was called yet
NoHook == [name |-> "none", ret |-> 0]

VARIABLES
    Mctrl,          \* Motor_Controls: ThrottleCommand
    Mobv,           \* Motor_Observations: RotorAngle, RotorSpeed_eHz, HallState, iA, iB, iC
    Mfoc,           \* FOC_StateVariables: Clarke_Alpha, Clarke_Beta
    Mpwm,           \* Motor_PWMDuties: tA, tB, tC
    DBG_RampAngle,  \* angle of the debug ramp
    DBG_Flags,      \* debug flags, bit 0 = PWM enable
    hook,           \* the last debug hook called and the value it returned
    HallSensor,     \* Rotor Estimator: Angle, Speed, State
    led_timer,      \* static counter of MAIN_AppTimerISR
    GLED,           \* level of the green LED pin
    MOE,            \* PWM_TIM->BDTR main output enable bit
    PWM_duty,       \* duties written by PWM_SetDutyF, <<>> before the first write
    DAC1_DHR12LD,   \* DAC data register, as its low and high halfword
    foc_in          \* arguments of this period's CORDIC_CalcSinCos and FOC_Ipark calls

mvars == <<Mctrl, Mobv, Mfoc, Mpwm, DBG_RampAngle, DBG_Flags, hook, HallSensor,
           led_timer, GLED, MOE, PWM_duty, DAC1_DHR12LD, foc_in>>

VARIABLES
    wdt,            \* the watchdog: number of WDT_Feed calls and the context of the last
    main_pc         \* position of the infinite loop of main()

wvars == <<wdt, main_pc>>

\* Number of WDT_Feed calls the model counts before the count saturates
MaxFeeds == 3

\* WDT_Feed called from the context ctx
WDT_Feed(w, ctx) ==
    [feeds |-> IF w.feeds < MaxFeeds THEN w.feeds + 1 ELSE w.feeds, last |-> ctx]

Max3(a, b, c) == IF a >= b /\ a >= c THEN a ELSE IF b >= c THEN b ELSE c
Min3(a, b, c) == IF a <= b /\ a <= c THEN a ELSE IF b <= c THEN b ELSE c
Clamp01(t) == IF t < 0 THEN 0 ELSE IF t > 1000 THEN 1000 ELSE t

\* FOC_RampGen: advance the ramp angle, wrapping at one revolution
FOC_RampGen(angle, inc) == (angle + inc) % AngleSteps

\* Mutant: the wrap takes off one revolution, and only at the upper end
HALL_IncAngle_WrapOnce(h) ==
    LET a == h.Angle + h.Speed
    IN  [h EXCEPT !.Angle = IF a >= AngleSteps THEN a - AngleSteps ELSE a]

\* on_tick: advance the accumulated angle by speed * dt, wrapping modulo 1.0
HALL_IncAngle(h) == [h EXCEPT !.Angle = (h.Angle + h.Speed) % AngleSteps]

\* The argument angle*2.0f-1.0f of CORDIC_CalcSinCos, in units of pi/12
CordicArg(angle) == angle * 2 - AngleSteps

\* CORDIC_CalcSinCos: sine and cosine of arg * pi, arg in [-1, 1)
CORDIC_CalcSinCos(arg) ==
    LET k == ((arg + 2 * AngleSteps) \div 2) % AngleSteps
    IN  [sin |-> SinTab[k + 1], cos |-> SinTab[((k + 3) % AngleSteps) + 1]]

\* FOC_Ipark: inverse rotating-frame transform
FOC_Ipark(d, q, sc) ==
    [alpha |-> (d * sc.cos - q * sc.sin) \div 1000,
     beta  |-> (d * sc.sin + q * sc.cos) \div 1000]

\* FOC_SVM: three phase projections, min-max centering, clamp to [0, 1]
FOC_SVM(alpha, beta) ==
    LET a == alpha
        b == (1732 * beta - 1000 * alpha) \div 2000
        c == (0 - 1732 * beta - 1000 * alpha) \div 2000
        off == (Max3(a, b, c) + Min3(a, b, c)) \div 2
    IN  [tA |-> Clamp01(500 + a - off), tB |-> Clamp01(500 + b - off),
         tC |-> Clamp01(500 + c - off)]

\* Mutant: the sine and cosine are taken of the rotor angle
MotorAngle_Rotor(ramp, rotor) == rotor

\* The angle MAIN_MotorISR hands to CORDIC_CalcSinCos (line 191)
MotorAngle(ramp, rotor) == ramp

\* The d and q inputs MAIN_MotorISR hands to FOC_Ipark (line 200)
MotorReference(throttle) == [d |-> 750, q |-> 0]

\* Lines 176-212: void MAIN_MotorISR(void), called at 20 kHz
MAIN_MotorISR(adc) ==
    LET ramp == FOC_RampGen(DBG_RampAngle, DBG_RampIncrement)
        hall == HALL_IncAngle(HallSensor)
        obv == [RotorAngle |-> hall.Angle, RotorSpeed_eHz |-> hall.Speed,
                HallState |-> hall.State, iA |-> adc[1], iB |-> adc[2], iC |-> adc[3]]
        arg == CordicArg(MotorAngle(ramp, obv.RotorAngle))
        ref == MotorReference(Mctrl.ThrottleCommand)
        ab == FOC_Ipark(ref.d, ref.q, CORDIC_CalcSinCos(arg))
        t == FOC_SVM(ab.alpha, ab.beta)
    IN  /\ DBG_RampAngle' = ramp
        /\ HallSensor' = hall
        /\ Mobv' = obv
        /\ foc_in' = [angle |-> arg, d |-> ref.d, q |-> ref.q]
        /\ Mfoc' = [Clarke_Alpha |-> ab.alpha, Clarke_Beta |-> ab.beta]
        /\ Mpwm' = t
        /\ DAC1_DHR12LD' = [lo |-> (65535 * t.tA) \div 1000, hi |-> (65535 * t.tB) \div 1000]
        /\ PWM_duty' = <<t.tA, t.tB, t.tC>>
        /\ UNCHANGED <<Mctrl, DBG_Flags, hook, led_timer, GLED, MOE>>

\* Mutant: the slow context feeds the watchdog
AppWatchdog_Feeds(w) == WDT_Feed(w, "app")

\* Lines 149-173: the watchdog after one MAIN_AppTimerISR (no call of WDT_Feed)
AppWatchdog(w) == w

\* Mutant: the store is split and only the upper part of the word is new
StoreFloat_Torn(old, new) == (new \div 16) * 16 + (old % 16)

\* Line 172: the word in memory after the store to Mctrl.ThrottleCommand
StoreFloat(old, new) == new

\* Mutant: led_timer is reset one tick late
AppLed_LateReset ==
    LET t == led_timer + 1
    IN  /\ led_timer' = IF t > LED_PERIOD THEN 0 ELSE t
        /\ GLED' = IF t > LED_PERIOD THEN 1 ELSE IF t = LED_OFF_TICK THEN 0 ELSE GLED

\* Lines 151-158: led_timer and the green LED
AppLed ==
    LET t == led_timer + 1
    IN  /\ led_timer' = IF t >= LED_PERIOD THEN 0 ELSE t
        /\ GLED' = IF t >= LED_PERIOD THEN 1 ELSE IF t = LED_OFF_TICK THEN 0 ELSE GLED

\* Mutant: the main output enable bit is set with the flag and never cleared
AppMoe_SetOnly == MOE' = IF (DBG_Flags % 2) # 0 THEN 1 ELSE MOE

\* Lines 164-168: main output enable follows the debug flag
AppMoe == MOE' = IF (DBG_Flags % 2) # 0 THEN 1 ELSE 0

\* Lines 149-173: void MAIN_AppTimerISR(void), called at 1 kHz
MAIN_AppTimerISR(cmd) ==
    /\ AppLed
    /\ AppMoe
    /\ wdt' = AppWatchdog(wdt)
    /\ Mctrl' = [Mctrl EXCEPT !.ThrottleCommand = StoreFloat(@, cmd)]
    /\ UNCHANGED main_pc
        /\ UNCHANGED <<Mobv, Mfoc, Mpwm, DBG_RampAngle, DBG_Flags, hook, HallSensor,
                       PWM_duty, DAC1_DHR12LD, foc_in>>

\* Mutant: a reserved code is counted and also clears the speed estimate
HALL_Edge_GlitchStops(h, code, speed, stamp) ==
    IF code \in DOMAIN HallTable
    THEN [h EXCEPT !.Angle = HallTable[code], !.Speed = speed, !.State = code,
                   !.Stamp = stamp]
    ELSE [h EXCEPT !.Speed = 0,
                   !.Glitches = IF @ < MaxGlitches THEN @ + 1 ELSE @]

\* on_sensor_edge: the estimator state after an edge to a new sensor code
\* captured at time stamp; a reserved code (0 or 7) is a glitch, which is
\* counted and changes nothing else
HALL_Edge(h, code, speed, stamp) ==
    IF code \in DOMAIN HallTable
    THEN [h EXCEPT !.Angle = HallTable[code], !.Speed = speed, !.State = code,
                   !.Stamp = stamp]
    ELSE [h EXCEPT !.Glitches = IF @ < MaxGlitches THEN @ + 1 ELSE @]

\* on_sensor_edge: a new sensor code
HALL_CaptureCallback(code, speed, stamp) ==
    /\ code # HallSensor.State
    /\ HallSensor' = HALL_Edge(HallSensor, code, speed, stamp)
    /\ UNCHANGED <<Mctrl, Mobv, Mfoc, Mpwm, DBG_RampAngle, DBG_Flags, hook,
                   led_timer, GLED, MOE, PWM_duty, DAC1_DHR12LD, foc_in>>

\* Lines 366-369: uint8_t MAIN_EnableDebugPWM(void)
MAIN_EnableDebugPWM ==
    /\ DBG_Flags' = (DBG_Flags - (DBG_Flags % 2)) + DBG_FLAG_PWM_ENABLE
    /\ hook' = [name |-> "enable", ret |-> RETVAL_OK]
    /\ UNCHANGED <<Mctrl, Mobv, Mfoc, Mpwm, DBG_RampAngle, HallSensor,
                   led_timer, GLED, MOE, PWM_duty, DAC1_DHR12LD, foc_in>>

\* Lines 371-374: uint8_t MAIN_DisableDebugPWM(void)
MAIN_DisableDebugPWM ==
    /\ DBG_Flags' = DBG_Flags - (DBG_Flags % 2)
    /\ hook' = [name |-> "disable", ret |-> RETVAL_OK]
    /\ UNCHANGED <<Mctrl, Mobv, Mfoc, Mpwm, DBG_RampAngle, HallSensor,
                   led_timer, GLED, MOE, PWM_duty, DAC1_DHR12LD, foc_in>>

\* State at the entry of the infinite loop of main() (lines 55-138)
InitMain ==
    /\ Mctrl = [ThrottleCommand |-> 0]
    /\ Mobv = [RotorAngle |-> 0, RotorSpeed_eHz |-> 0, HallState |-> 0,
               iA |-> 0, iB |-> 0, iC |-> 0]
    /\ Mfoc = [Clarke_Alpha |-> 0, Clarke_Beta |-> 0]
    /\ Mpwm = [tA |-> 0, tB |-> 0, tC |-> 0]
    /\ DBG_RampAngle = 0
    /\ DBG_Flags = 0
    /\ hook = NoHook
    /\ HallSensor = [Angle |-> HallTable[1], Speed |-> 0, State |-> 1,
                     Stamp |-> 0, Glitches |-> 0]
    /\ led_timer = 0
    /\ GLED = 1
    /\ MOE = 0
    /\ PWM_duty = <<>>
    /\ DAC1_DHR12LD = [lo |-> 0, hi |-> 0]
    /\ foc_in = [angle |-> 0, d |-> 0, q |-> 0]

\* The watchdog is started right before the infinite loop (lines 136-139)
InitIdle ==
    /\ wdt = [feeds |-> 0, last |-> "none"]
    /\ main_pc = "feed"

\* Line 141: WDT_Feed() in the infinite loop
MainFeed ==
    /\ main_pc = "feed"
    /\ wdt' = WDT_Feed(wdt, "main")
    /\ main_pc' = "usb"
    /\ UNCHANGED mvars

\* Line 143: USB_Data_Comm_OneByte_Check(), which may run one of the debug
\* commands of lines 366-374
MainUsb ==
    /\ main_pc = "usb"
    /\ main_pc' = "live"
    /\ \/ UNCHANGED mvars
       \/ MAIN_EnableDebugPWM
       \/ MAIN_DisableDebugPWM
    /\ UNCHANGED wdt

\* Line 144: LIVE_SendPacket()
MainLive ==
    /\ main_pc = "live"
    /\ main_pc' = "feed"
    /\ UNCHANGED <<wdt, mvars>>

(***************************************************************************)
(* The interrupt contexts of main.c under preemption.  The handlers run on *)
(* one core; stack holds the contexts that are active, the last one is     *)
(* running.  An interrupt is taken when its priority number is lower than  *)
(* that of the running context (project_parameters.h, lines 297-308).      *)
(* Each handler is a sequence of steps; a step is one or more statements   *)
(* between which no claim observes the state.                              *)
(***************************************************************************)
PRIO_PWM == 0
PRIO_HALL == 1
PRIO_APPTIMER == 3
\* Thread mode, below the 16 preemption levels (main.c, lines 75-80)
PRIO_THREAD == 16

VARIABLES
    stack,          \* active contexts, from the interrupted ones to the running one
    pc,             \* position of each handler, "idle" when it is not active
    app_cmd,        \* MAIN_AppTimerISR: value of THROTTLE_GetCommand() before the store
    hall_in,        \* sensor-edge handler: the captured code and speed
    cmd_done,       \* value of the last completed store to Mctrl.ThrottleCommand
    cmd_seen,       \* Mctrl.ThrottleCommand as the last fast period could read it
    snap            \* the Rotor Estimator state right after this period's HALL_IncAngle

ivars == <<stack, pc, app_cmd, hall_in, cmd_done, cmd_seen, snap>>

Handlers == {"motor", "hall", "app"}
NoEdge == [code |-> 0, speed |-> 0, stamp |-> 0]

Top == stack[Len(stack)]
Active(ctx) == \E i \in 1..Len(stack) : stack[i] = ctx

\* Mutant: the sensor-edge interrupt and the PWM interrupt have swapped priorities
Prio_HallFirst(ctx) ==
    CASE ctx = "motor" -> PRIO_HALL
      [] ctx = "hall" -> PRIO_PWM
      [] ctx = "app" -> PRIO_APPTIMER
      [] OTHER -> PRIO_THREAD

\* Priority number of each context
Prio(ctx) ==
    CASE ctx = "motor" -> PRIO_PWM
      [] ctx = "hall" -> PRIO_HALL
      [] ctx = "app" -> PRIO_APPTIMER
      [] OTHER -> PRIO_THREAD

\* Mutant: any interrupt overrides the running handler
Preempts_Flat(irq, running) == irq # running

\* "only a lower number interrupt will override a currently responding IRQ"
Preempts(irq, running) == Prio(irq) < Prio(running)

Enter(irq, first) ==
    /\ ~Active(irq)
    /\ Preempts(irq, Top)
    /\ stack' = Append(stack, irq)
    /\ pc' = [pc EXCEPT ![irq] = first]

Step(ctx, from, to) ==
    /\ Top = ctx
    /\ pc[ctx] = from
    /\ pc' = [pc EXCEPT ![ctx] = to]
    /\ UNCHANGED stack

Return(ctx, from) ==
    /\ Top = ctx
    /\ pc[ctx] = from
    /\ pc' = [pc EXCEPT ![ctx] = "idle"]
    /\ stack' = SubSeq(stack, 1, Len(stack) - 1)

\* The PWM interrupt is taken: entry of MAIN_MotorISR
IrqMotor ==
    /\ Enter("motor", "inc")
    /\ UNCHANGED <<mvars, wvars, app_cmd, hall_in, cmd_done, cmd_seen, snap>>

\* Lines 181-186: FOC_RampGen and HALL_IncAngle
MotorInc ==
    /\ Step("motor", "inc", "angle")
    /\ DBG_RampAngle' = FOC_RampGen(DBG_RampAngle, DBG_RampIncrement)
    /\ HallSensor' = HALL_IncAngle(HallSensor)
    /\ snap' = HallSensor'
    /\ UNCHANGED <<Mctrl, Mobv, Mfoc, Mpwm, DBG_Flags, hook, led_timer, GLED, MOE,
                   PWM_duty, DAC1_DHR12LD, foc_in>>
    /\ UNCHANGED <<wvars, app_cmd, hall_in, cmd_done, cmd_seen>>

\* Line 187: Mobv.RotorAngle = HALL_GetAngleF()
MotorGetAngle ==
    /\ Step("motor", "angle", "speed")
    /\ Mobv' = [Mobv EXCEPT !.RotorAngle = HallSensor.Angle]
    /\ UNCHANGED <<Mctrl, Mfoc, Mpwm, DBG_RampAngle, DBG_Flags, hook, HallSensor, led_timer,
                   GLED, MOE, PWM_duty, DAC1_DHR12LD, foc_in>>
    /\ UNCHANGED <<wvars, app_cmd, hall_in, cmd_done, cmd_seen, snap>>

\* Line 188: Mobv.RotorSpeed_eHz = HALL_GetSpeedF()
MotorGetSpeed ==
    /\ Step("motor", "speed", "state")
    /\ Mobv' = [Mobv EXCEPT !.RotorSpeed_eHz = HallSensor.Speed]
    /\ UNCHANGED <<Mctrl, Mfoc, Mpwm, DBG_RampAngle, DBG_Flags, hook, HallSensor, led_timer,
                   GLED, MOE, PWM_duty, DAC1_DHR12LD, foc_in>>
    /\ UNCHANGED <<wvars, app_cmd, hall_in, cmd_done, cmd_seen, snap>>

\* Line 189: Mobv.HallState = HALL_GetState()
MotorGetState ==
    /\ Step("motor", "state", "foc")
    /\ Mobv' = [Mobv EXCEPT !.HallState = HallSensor.State]
    /\ UNCHANGED <<Mctrl, Mfoc, Mpwm, DBG_RampAngle, DBG_Flags, hook, HallSensor, led_timer,
                   GLED, MOE, PWM_duty, DAC1_DHR12LD, foc_in>>
    /\ UNCHANGED <<wvars, app_cmd, hall_in, cmd_done, cmd_seen, snap>>

\* Lines 190-212: sine and cosine, currents, modulation, duties, live data
\* (LIVE_AssemblePacket gets Mctrl through Mvar.Ctrl), return from interrupt
MotorOutput(adc) ==
    LET arg == CordicArg(MotorAngle(DBG_RampAngle, Mobv.RotorAngle))
        ref == MotorReference(Mctrl.ThrottleCommand)
        ab == FOC_Ipark(ref.d, ref.q, CORDIC_CalcSinCos(arg))
        t == FOC_SVM(ab.alpha, ab.beta)
    IN  /\ Return("motor", "foc")
        /\ Mobv' = [Mobv EXCEPT !.iA = adc[1], !.iB = adc[2], !.iC = adc[3]]
        /\ foc_in' = [angle |-> arg, d |-> ref.d, q |-> ref.q]
        /\ Mfoc' = [Clarke_Alpha |-> ab.alpha, Clarke_Beta |-> ab.beta]
        /\ Mpwm' = t
        /\ DAC1_DHR12LD' = [lo |-> (65535 * t.tA) \div 1000, hi |-> (65535 * t.tB) \div 1000]
        /\ PWM_duty' = <<t.tA, t.tB, t.tC>>
        /\ cmd_seen' = [val |-> Mctrl.ThrottleCommand, during |-> pc["app"]]
        /\ UNCHANGED <<Mctrl, DBG_RampAngle, DBG_Flags, hook, HallSensor, led_timer, GLED, MOE>>
        /\ UNCHANGED <<wvars, app_cmd, hall_in, cmd_done, snap>>

\* The sensor-edge interrupt is taken with a new code captured
IrqHall(code, speed, stamp) ==
    /\ Enter("hall", "update")
    /\ code # HallSensor.State
    /\ hall_in' = [code |-> code, speed |-> speed, stamp |-> stamp]
    /\ UNCHANGED <<mvars, wvars, app_cmd, cmd_done, cmd_seen, snap>>

\* on_sensor_edge: the update of the estimator state, made with interrupts
\* masked (one step), and the return from the interrupt
HallUpdate ==
    /\ Return("hall", "update")
    /\ HallSensor' = HALL_Edge(HallSensor, hall_in.code, hall_in.speed, hall_in.stamp)
    /\ hall_in' = NoEdge
    /\ UNCHANGED <<Mctrl, Mobv, Mfoc, Mpwm, DBG_RampAngle, DBG_Flags, hook, led_timer, GLED,
                   MOE, PWM_duty, DAC1_DHR12LD, foc_in>>
    /\ UNCHANGED <<wvars, app_cmd, cmd_done, cmd_seen, snap>>

\* The application timer interrupt is taken: entry of MAIN_AppTimerISR
IrqApp ==
    /\ Enter("app", "led")
    /\ UNCHANGED <<mvars, wvars, app_cmd, hall_in, cmd_done, cmd_seen, snap>>

\* Lines 150-168: status LED, slow ADC conversions, main output enable
AppHousekeeping ==
    /\ Step("app", "led", "throttle")
    /\ AppLed
    /\ AppMoe
    /\ wdt' = AppWatchdog(wdt)
    /\ UNCHANGED <<Mctrl, Mobv, Mfoc, Mpwm, DBG_RampAngle, DBG_Flags, hook, HallSensor,
                   PWM_duty, DAC1_DHR12LD, foc_in>>
    /\ UNCHANGED <<main_pc, app_cmd, hall_in, cmd_done, cmd_seen, snap>>

\* Lines 171-172: THROTTLE_Process() and the call of THROTTLE_GetCommand()
AppThrottle(cmd) ==
    /\ Step("app", "throttle", "store")
    /\ app_cmd' = cmd
    /\ UNCHANGED <<mvars, wvars, hall_in, cmd_done, cmd_seen, snap>>

\* Line 172: the store to Mctrl.ThrottleCommand, and the return from interrupt
AppStore ==
    /\ Return("app", "store")
    /\ Mctrl' = [Mctrl EXCEPT !.ThrottleCommand = StoreFloat(@, app_cmd)]
    /\ cmd_done' = app_cmd
    /\ app_cmd' = 0
    /\ UNCHANGED <<Mobv, Mfoc, Mpwm, DBG_RampAngle, DBG_Flags, hook, HallSensor, led_timer,
                   GLED, MOE, PWM_duty, DAC1_DHR12LD, foc_in>>
    /\ UNCHANGED <<wvars, hall_in, cmd_seen, snap>>

\* No interrupt is active when the infinite loop of main() is entered
InitIrq ==
    /\ stack = <<"main">>
    /\ pc = [h \in Handlers |-> "idle"]
    /\ app_cmd = 0
    /\ hall_in = NoEdge
    /\ cmd_done = 0
    /\ cmd_seen = [val |-> 0, during |-> "idle"]
    /\ snap = [Angle |-> 0, Speed |-> 0, State |-> 0]

(***************************************************************************)
(* ebike-g4/src/main.c: entry to the system bootloader.  The request is    *)
(* kept in the backup register TAMP->BKP0R, which a system reset leaves    *)
(* as it is; MAIN_CheckBootloader is the first call of main().             *)
(***************************************************************************)
BOOTLOADER_RESET_FLAG == 1950442319     \* 0x7441634F
\* Numbers of requests and of plain reboots the model counts
MaxRequests == 6
MaxReboots == 8

VARIABLES
    BKP0R,          \* TAMP->BKP0R
    boot_mode,      \* "app": the application runs; "reset": a reset was made and
                    \* main() starts; "bootloader": the system bootloader runs
    boot_log        \* numbers of requests, of bootloader entries and of reboots

bvars == <<BKP0R, boot_mode, boot_log>>

\* Mutant: the flag is left in the backup register
BackupAfterCheck_Kept(b) == b

\* Line 322: TAMP->BKP0R = 0, before the jump
BackupAfterCheck(b) == 0

\* Lines 308-331: void MAIN_CheckBootloader(void), at the start of main()
MAIN_CheckBootloader ==
    /\ boot_mode = "reset"
    /\ IF BKP0R = BOOTLOADER_RESET_FLAG
       THEN /\ BKP0R' = BackupAfterCheck(BKP0R)
            /\ boot_mode' = "bootloader"
            /\ boot_log' = [boot_log EXCEPT !.entries = @ + 1]
       ELSE /\ boot_mode' = "app"
            /\ UNCHANGED <<BKP0R, boot_log>>

\* Lines 350-359: void MAIN_GoToBootloader(void)
MAIN_GoToBootloader ==
    /\ boot_mode = "app"
    /\ boot_log.requests < MaxRequests
    /\ BKP0R' = BOOTLOADER_RESET_FLAG
    /\ boot_mode' = "reset"
    /\ boot_log' = [boot_log EXCEPT !.requests = @ + 1]

\* Lines 361-364: void MAIN_Reboot(void)
MAIN_Reboot ==
    /\ boot_mode = "app"
    /\ boot_log.reboots < MaxReboots
    /\ boot_mode' = "reset"
    /\ boot_log' = [boot_log EXCEPT !.reboots = @ + 1]
    /\ UNCHANGED BKP0R

\* The system bootloader ends with a system reset
BootloaderReset ==
    /\ boot_mode = "bootloader"
    /\ boot_mode' = "reset"
    /\ UNCHANGED <<BKP0R, boot_log>>

\* The application runs and no request is stored
InitBoot ==
    /\ BKP0R = 0
    /\ boot_mode = "app"
    /\ boot_log = [requests |-> 0, entries |-> 0, reboots |-> 0]

(***************************************************************************)
(* ebike-controller/src/throttle.c: throttle_switch_type, which sets the   *)
(* input type of a throttle channel.  EXTI_IMR and EXTI_RTSR are the sets  *)
(* of EXTI lines whose bit is set in the register.                         *)
(***************************************************************************)
\* Input types: THROTTLE_TYPE_ANALOG, THROTTLE_TYPE_PAS and none
ThrTypes == {"analog", "pas", "none"}

VARIABLES
    EXTI_IMR,       \* EXTI->IMR: the unmasked lines
    EXTI_RTSR,      \* EXTI->RTSR: the lines with the rising trigger selected
    PAS_TIM_CEN,    \* TIM_CR1_CEN of PAS1_TIM and PAS2_TIM
    pin_mode,       \* mode of the two throttle pins
    thr_type,       \* the type last passed for each channel
    sw_call         \* arguments of the last call

svars == <<EXTI_IMR, EXTI_RTSR, PAS_TIM_CEN, pin_mode, thr_type, sw_call>>

\* Lines 35 and 65: the EXTI line of a channel's pin
ExtiLine(thrnum) == IF thrnum = 1 THEN ADC_THR1_PIN ELSE ADC_THR2_PIN

\* Lines 19-81: void throttle_switch_type(uint8_t thrnum, uint8_t thrtype)
throttle_switch_type(thrnum, thrtype) ==
    /\ sw_call' = <<thrnum, thrtype>>
    /\ thr_type' = IF thrnum \in {1, 2} THEN [thr_type EXCEPT ![thrnum] = thrtype]
                                        ELSE thr_type
    /\ IF thrnum \in {1, 2} /\ thrtype = "analog"
       THEN /\ pin_mode' = [pin_mode EXCEPT ![thrnum] = "analog"]
            /\ EXTI_IMR' = EXTI_IMR \ {ExtiLine(thrnum)}
            /\ UNCHANGED <<EXTI_RTSR, PAS_TIM_CEN>>
       ELSE IF thrnum \in {1, 2} /\ thrtype = "pas"
       THEN /\ pin_mode' = [pin_mode EXCEPT ![thrnum] = "input"]
            /\ EXTI_IMR' = EXTI_IMR \cup {ExtiLine(thrnum)}
            /\ EXTI_RTSR' = EXTI_RTSR \cup {ExtiLine(thrnum)}
            /\ PAS_TIM_CEN' = [PAS_TIM_CEN EXCEPT ![thrnum] = 1]
       ELSE UNCHANGED <<pin_mode, EXTI_IMR, EXTI_RTSR, PAS_TIM_CEN>>

\* The registers after reset: both lines masked, both timers stopped
InitSwitch ==
    /\ EXTI_IMR = {}
    /\ EXTI_RTSR = {}
    /\ PAS_TIM_CEN = [ch \in {1, 2} |-> 0]
    /\ pin_mode = [ch \in {1, 2} |-> "reset"]
    /\ thr_type = [ch \in {1, 2} |-> "unset"]
    /\ sw_call = <<0, "unset">>

(***************************************************************************)
(* The analog conditioner with an input that does not change: the first    *)
(* step fixes the filtered input of all later calls of throttle_process.   *)
(***************************************************************************)
\* Constant inputs: an open or grounded input, and inputs from the default
\* minimum less the guard margin upwards
ConstVolts == {0, 5, 10, 15, 80, 82, 84, 88, 100, 150, 250, 320}
NoInput == -1

VARIABLES
    vin             \* the constant filtered input, NoInput before it is fixed

cvars == <<vin>>

InitConst == vin = NoInput

(***************************************************************************)
(* The code of the last sensor edge the Rotor Estimator handled, recorded  *)
(* where the handler is observed on its own.                               *)
(***************************************************************************)
VARIABLES
    hall_code       \* new_code of the last on_sensor_edge call, -1 before the first

gvars == <<hall_code>>

InitEdge == hall_code = -1

(***************************************************************************)
(* Commissioning of the Rotor Estimator: the detection routine drives the  *)
(* rotor open loop, counts the sensor transitions it sees and averages,    *)
(* per code, the open-loop angle at the transition.  One step is one       *)
(* millisecond of the routine.                                             *)
(***************************************************************************)
\* Scaled down from 16 transitions and 1500 ms
HALL_DETECT_MIN_TRANSITIONS == 3
HALL_DETECT_TIMEOUT_MS == 4
\* Codes and open-loop angles of the transitions a run can observe
DetectCodes == {1, 3, 2}
DetectAngles == {2, 8}

VARIABLES
    HallCalibrationTable,   \* the calibration table in use
    detect                  \* the detection routine: state, elapsed time, number
                            \* of transitions, sums and counts per code, and the
                            \* table as it was when the run started

dvars == <<HallCalibrationTable, detect>>

NoSamples == [c \in ValidCodes |-> 0]

\* The averages of a completed run; a code that was not seen keeps its entry
DetectCommit(table, sum, n) ==
    [c \in ValidCodes |-> IF n[c] > 0 THEN sum[c] \div n[c] ELSE table[c]]

\* Mutant: a run that times out commits the averages it has
DetectFail_Partial(table, sum, n) == DetectCommit(table, sum, n)

\* The table after a run that timed out: the table before the run
DetectFail(table, sum, n) == table

\* The detection routine is started
DetectStart ==
    /\ detect.state # "running"
    /\ detect' = [state |-> "running", elapsed |-> 0, transitions |-> 0,
                  sum |-> NoSamples, n |-> NoSamples, before |-> HallCalibrationTable]
    /\ UNCHANGED HallCalibrationTable

\* One millisecond of a run, in which a transition to code at the open-loop
\* angle was seen (seen = TRUE) or none was
DetectStep(seen, code, angle) ==
    LET t == detect.transitions + (IF seen THEN 1 ELSE 0)
        e == detect.elapsed + 1
        sum == IF seen THEN [detect.sum EXCEPT ![code] = @ + angle] ELSE detect.sum
        n == IF seen THEN [detect.n EXCEPT ![code] = @ + 1] ELSE detect.n
        st == IF t >= HALL_DETECT_MIN_TRANSITIONS THEN "done"
              ELSE IF e >= HALL_DETECT_TIMEOUT_MS THEN "failed"
              ELSE "running"
    IN  /\ detect.state = "running"
        /\ detect' = [detect EXCEPT !.state = st, !.elapsed = e, !.transitions = t,
                                    !.sum = sum, !.n = n]
        /\ HallCalibrationTable' =
               CASE st = "done" -> DetectCommit(HallCalibrationTable, sum, n)
                 [] st = "failed" -> DetectFail(HallCalibrationTable, sum, n)
                 [] OTHER -> HallCalibrationTable

\* The table loaded from the configuration; no run was made
InitDetect ==
    /\ HallCalibrationTable = HallTable
    /\ detect = [state |-> "idle", elapsed |-> 0, transitions |-> 0,
                 sum |-> NoSamples, n |-> NoSamples, before |-> HallTable]

xvars == <<bvars, svars, cvars, gvars, dvars>>

(***************************************************************************)
(* Specifications, each over the whole state: the analog conditioner, the  *)
(* handlers of main.c run to completion, the idle loop, the Rotor          *)
(* Estimator, both conditioners, the handlers under preemption, the       *)
(* bootloader entry, the input type switch and the analog conditioner     *)
(* with a constant input.                                                  *)
(***************************************************************************)
vars == <<tvars, pvars, mvars, wvars, ivars, xvars>>

Init ==
    /\ InitThrottle /\ InitPas /\ InitMain /\ InitIdle /\ InitIrq
    /\ InitBoot /\ InitSwitch /\ InitConst /\ InitEdge /\ InitDetect

ThrottleStartup == \E y \in Volts :
                       throttle_startup(y) /\ UNCHANGED <<pvars, mvars, wvars, ivars, xvars>>
ThrottleNormal == \E y \in Volts, vref \in Vrefs :
                      throttle_normal(y, vref) /\ UNCHANGED <<pvars, mvars, wvars, ivars, xvars>>

MotorTick == \E adc \in AdcSamples :
                 MAIN_MotorISR(adc) /\ UNCHANGED <<tvars, pvars, wvars, ivars, xvars>>
AppTick == \E cmd \in Commands : MAIN_AppTimerISR(cmd) /\ UNCHANGED <<tvars, pvars, ivars, xvars>>
HallEdge == \E code \in ValidCodes, speed \in Speeds, stamp \in EdgeStamps :
                HALL_CaptureCallback(code, speed, stamp) /\ UNCHANGED <<tvars, pvars, wvars, ivars, xvars>>
EnablePWM == MAIN_EnableDebugPWM /\ UNCHANGED <<tvars, pvars, wvars, ivars, xvars>>
DisablePWM == MAIN_DisableDebugPWM /\ UNCHANGED <<tvars, pvars, wvars, ivars, xvars>>

\* The infinite loop of main() (lines 139-145), interrupted by the slow context
IdleFeed == MainFeed /\ UNCHANGED <<tvars, pvars, ivars, xvars>>
IdleUsb == MainUsb /\ UNCHANGED <<tvars, pvars, ivars, xvars>>
IdleLive == MainLive /\ UNCHANGED <<tvars, pvars, ivars, xvars>>

NextT == ThrottleStartup \/ ThrottleNormal
NextM == MotorTick \/ AppTick \/ HallEdge \/ EnablePWM \/ DisablePWM

SpecThrottle == Init /\ [][NextT]_vars

SpecMain == Init /\ [][NextM]_vars

NextI == IdleFeed \/ IdleUsb \/ IdleLive \/ AppTick

SpecIdle == Init /\ [][NextI]_vars

\* The Rotor Estimator with the fast context: ticks and edges in any order
RotorEdge == \E code \in ValidCodes, speed \in RotorSpeeds, stamp \in EdgeStamps :
                 HALL_CaptureCallback(code, speed, stamp) /\ UNCHANGED <<tvars, pvars, wvars, ivars, xvars>>

NextR == MotorTick \/ RotorEdge

SpecRotor == Init /\ [][NextR]_vars

\* The sensor-edge handler on its own: edges to any code, reserved or not
SensorEdge == \E code \in HallCodes, speed \in RotorSpeeds, stamp \in Stamps :
                  /\ HALL_CaptureCallback(code, speed, stamp)
                  /\ hall_code' = code
                  /\ UNCHANGED <<tvars, pvars, wvars, ivars, bvars, svars, cvars, dvars>>

NextE == SensorEdge

SpecEdge == Init /\ [][NextE]_vars

\* Both conditioners of throttle.c: the pulse-rate path called for either
\* channel, and the analog path
PasProcess == \E thrnum \in ThrNums, level \in Levels :
                  throttle_pas_process(thrnum, level) /\ UNCHANGED <<mvars, wvars, ivars, xvars>>
AnalogStartup == \E y \in PasVolts :
                     throttle_startup(y) /\ UNCHANGED <<pvars, mvars, wvars, ivars, xvars>>
AnalogNormal == \E y \in PasVolts, vref \in PasVrefs :
                    throttle_normal(y, vref) /\ UNCHANGED <<pvars, mvars, wvars, ivars, xvars>>

NextS == PasProcess \/ AnalogStartup \/ AnalogNormal

SpecPas == Init /\ [][NextS]_vars

\* The three interrupt handlers of the motor control, with preemption
PwmIrq == IrqMotor /\ UNCHANGED <<tvars, pvars, xvars>>
MotorStepInc == MotorInc /\ UNCHANGED <<tvars, pvars, xvars>>
MotorStepAngle == MotorGetAngle /\ UNCHANGED <<tvars, pvars, xvars>>
MotorStepSpeed == MotorGetSpeed /\ UNCHANGED <<tvars, pvars, xvars>>
MotorStepState == MotorGetState /\ UNCHANGED <<tvars, pvars, xvars>>
MotorStepOutput == \E adc \in AdcSamples : MotorOutput(adc) /\ UNCHANGED <<tvars, pvars, xvars>>
HallIrq == \E code \in EdgeCodes, speed \in EdgeSpeeds, stamp \in EdgeStamps :
               IrqHall(code, speed, stamp) /\ UNCHANGED <<tvars, pvars, xvars>>
HallStepUpdate == HallUpdate /\ UNCHANGED <<tvars, pvars, xvars>>
AppIrq == IrqApp /\ UNCHANGED <<tvars, pvars, xvars>>
AppStepHousekeeping == AppHousekeeping /\ UNCHANGED <<tvars, pvars, xvars>>
AppStepThrottle == \E cmd \in Commands : AppThrottle(cmd) /\ UNCHANGED <<tvars, pvars, xvars>>
AppStepStore == AppStore /\ UNCHANGED <<tvars, pvars, xvars>>

NextP ==
    \/ PwmIrq \/ MotorStepInc \/ MotorStepAngle \/ MotorStepSpeed
    \/ MotorStepState \/ MotorStepOutput
    \/ HallIrq \/ HallStepUpdate
    \/ AppIrq \/ AppStepHousekeeping \/ AppStepThrottle \/ AppStepStore

SpecPreempt == Init /\ [][NextP]_vars

\* Resets, bootloader requests and boots
others == <<tvars, pvars, mvars, wvars, ivars>>
GoToBootloader == MAIN_GoToBootloader /\ UNCHANGED <<others, svars, cvars, gvars, dvars>>
Reboot == MAIN_Reboot /\ UNCHANGED <<others, svars, cvars, gvars, dvars>>
Boot == MAIN_CheckBootloader /\ UNCHANGED <<others, svars, cvars, gvars, dvars>>
LeaveBootloader == BootloaderReset /\ UNCHANGED <<others, svars, cvars, gvars, dvars>>

NextB == GoToBootloader \/ Reboot \/ Boot \/ LeaveBootloader

SpecBoot == Init /\ [][NextB]_vars

\* Calls of throttle_switch_type with any channel number and type
SwitchType == \E thrnum \in ThrNums, thrtype \in ThrTypes :
                  throttle_switch_type(thrnum, thrtype) /\ UNCHANGED <<others, bvars, cvars, gvars, dvars>>

NextW == SwitchType

SpecSwitch == Init /\ [][NextW]_vars

\* throttle_process is called on every slow tick with the same filtered input
ConstChoose ==
    /\ vin = NoInput
    /\ vin' \in ConstVolts
    /\ UNCHANGED <<others, bvars, svars, gvars, dvars>>
ConstStartup ==
    /\ vin # NoInput
    /\ throttle_startup(vin)
    /\ UNCHANGED <<pvars, mvars, wvars, ivars, xvars>>
ConstNormal ==
    /\ vin # NoInput
    /\ \E vref \in Vrefs : throttle_normal(vin, vref)
    /\ UNCHANGED <<pvars, mvars, wvars, ivars, xvars>>

NextC == ConstChoose \/ ConstStartup \/ ConstNormal

SpecConst == Init /\ [][NextC]_vars /\ WF_vars(NextC)

\* Commissioning runs: a run is started, then sees a transition or none in
\* each millisecond until it completes or times out
StartDetect == DetectStart /\ UNCHANGED <<others, bvars, svars, cvars, gvars>>
DetectTransition == \E code \in DetectCodes, angle \in DetectAngles :
                        DetectStep(TRUE, code, angle)
                            /\ UNCHANGED <<others, bvars, svars, cvars, gvars>>
DetectQuiet == DetectStep(FALSE, 1, 0) /\ UNCHANGED <<others, bvars, svars, cvars, gvars>>

NextD == StartDetect \/ DetectTransition \/ DetectQuiet

SpecDetect == Init /\ [][NextD]_vars

(***************************************************************************)
(* Properties of the throttle conditioner, checked under SpecThrottle.     *)
(***************************************************************************)
InOutputRange(x) == THROTTLE_OUTPUT_MIN <= x /\ x <= THROTTLE_OUTPUT_MAX
StartupCalls == THROTTLE_START_TIME
WindowLength == THROTTLE_START_TIME - THROTTLE_START_DEADTIME
SaneMin(avg) == IF MinSaneLow <= avg /\ avg <= MinSaneHigh THEN avg ELSE THROTTLE_MIN_DEFAULT
SaneMax(m) == IF MaxSaneLow <= m /\ m <= MaxSaneHigh THEN m ELSE THROTTLE_MAX_DEFAULT
Phase(cnt) ==
    IF cnt >= THROTTLE_START_TIME THEN "Normal"
    ELSE IF cnt + 1 >= THROTTLE_START_DEADTIME THEN "Averaging" ELSE "Deadtime"

\* C1: every value returned by throttle_process, and the stored prev_output,
\* lies in [THROTTLE_OUTPUT_MIN, THROTTLE_OUTPUT_MAX], in every calibration state.
C1_OutputInRange == InOutputRange(ret) /\ InOutputRange(prev_output)

\* C1 witness: a Normal call whose unclipped command is above the upper bound
\* returns exactly the upper bound.
C1_Witness ==
    /\ call.kind = "normal"
    /\ ((Throttle_filt - sThrottle.min) * sThrottle.scale_factor) \div SfDen
           > THROTTLE_OUTPUT_MAX
    /\ ret = THROTTLE_OUTPUT_MAX

\* C2: between any two consecutive calls the returned value rises by at most
\* THROTTLE_SLEW_RATE, whatever calibration state the calls are in.
C2_SlewAcrossCalls == [][ret' <= ret + THROTTLE_SLEW_RATE]_vars

\* C3: in Normal state the latch turns on only at a clamped command at or above
\* THROTTLE_HYST_HIGH, turns off only at one at or below THROTTLE_HYST_LOW, and
\* does not change for a command strictly between them: the output then stays 0
\* if the latch was off and non-zero if it was on.  Calls that compute no
\* command leave the latch alone.
C3_Hysteresis ==
    [][ /\ call'.kind = "normal" =>
             /\ (sThrottle.state = 0 /\ sThrottle'.state = 1)
                    => call'.clamped >= THROTTLE_HYST_HIGH
             /\ (sThrottle.state = 1 /\ sThrottle'.state = 0)
                    => call'.clamped <= THROTTLE_HYST_LOW
             /\ (THROTTLE_HYST_LOW < call'.clamped /\ call'.clamped < THROTTLE_HYST_HIGH)
                    => /\ sThrottle'.state = sThrottle.state
                       /\ sThrottle.state = 0 => ret' = 0
                       /\ sThrottle.state = 1 => ret' # 0
        /\ call'.kind # "normal" => sThrottle'.state = sThrottle.state
      ]_vars

\* C3 witness: the latch is on after a Normal call whose clamped command was
\* strictly between the thresholds, and the output is not zero.
C3_Witness ==
    /\ call.kind = "normal"
    /\ THROTTLE_HYST_LOW < call.clamped /\ call.clamped < THROTTLE_HYST_HIGH
    /\ sThrottle.state = 1
    /\ ret # 0

\* C4: from a freshly enabled channel the first THROTTLE_START_DEADTIME samples
\* are discarded, exactly the next THROTTLE_START_TIME - THROTTLE_START_DEADTIME
\* samples are accumulated, and min is their arithmetic mean (range-checked).
C4_AveragingWindow ==
    (call.calibrated /\ call.win_acc0 = 0) =>
        /\ call.win_skipped = THROTTLE_START_DEADTIME
        /\ call.win_n = WindowLength
        /\ call.cal_min = SaneMin(call.win_sum \div call.win_n)

\* C5: the channel moves Deadtime -> Averaging -> Normal, and back only from
\* Normal to the start of Deadtime; every call made in Deadtime or Averaging
\* returns 0 and leaves max and scale_factor alone; min, max and scale_factor
\* are computed once per calibration, by the first call after
\* THROTTLE_START_TIME startup calls.
C5_StateOrder ==
    [][ LET p == Phase(sThrottle.startup_count)
            q == Phase(sThrottle'.startup_count)
        IN  /\ p = "Deadtime" => q \in {"Deadtime", "Averaging"}
            /\ p = "Averaging" => q \in {"Averaging", "Normal"}
            /\ p = "Normal" => q \in {"Normal", "Deadtime"}
            /\ (p = "Normal" /\ q = "Deadtime") => sThrottle'.startup_count = 0
            /\ p # "Normal" =>
                   /\ ret' = 0
                   /\ sThrottle'.startup_count = sThrottle.startup_count + 1
                   /\ sThrottle'.max = sThrottle.max
                   /\ sThrottle'.scale_factor = sThrottle.scale_factor
            /\ call'.calibrated <=> sThrottle.startup_count = THROTTLE_START_TIME
            /\ call'.calibrated =>
                   /\ win.n + win.skipped = StartupCalls
                   /\ sThrottle'.startup_count \in {0, THROTTLE_START_TIME + 1}
      ]_vars

\* C5 witness: a calibration that follows a recalibration has completed and
\* the channel is in Normal again.
C5_Witness ==
    /\ call.calibrated
    /\ call.win_acc0 # 0
    /\ call.kind = "normal"
    /\ sThrottle.startup_count = THROTTLE_START_TIME + 1

C7_PersistentlyBelow ==
    [][(sThrottle.startup_count > THROTTLE_START_TIME /\ call'.kind = "recal")
          => Throttle_filt < sThrottle.min - THROTTLE_RANGE_LIMIT]_vars

\* C7 (amended): in Normal state the channel re-enters Deadtime on exactly the
\* calls whose filtered input is below min - THROTTLE_RANGE_LIMIT; one such
\* sample is enough.  Startup calls never restart the sequence.
C7_RestartOnFirstLowSample ==
    [][ /\ sThrottle.startup_count >= THROTTLE_START_TIME =>
             (sThrottle'.startup_count = 0
                  <=> Throttle_filt' < sThrottle'.min - THROTTLE_RANGE_LIMIT)
        /\ sThrottle.startup_count > THROTTLE_START_TIME =>
             sThrottle'.min = sThrottle.min
        /\ sThrottle.startup_count < THROTTLE_START_TIME =>
             sThrottle'.startup_count # 0
      ]_vars

\* C7 witness: a call in settled Normal state has restarted the sequence.
C7_Witness ==
    /\ call.kind = "recal"
    /\ ~call.calibrated
    /\ sThrottle.startup_count = 0
    /\ Throttle_filt < sThrottle.min - THROTTLE_RANGE_LIMIT

\* C8: in settled Normal state a sample above max + THROTTLE_RANGE_LIMIT sets
\* max to the sample and scale_factor to 1/(max - min) and leaves min and
\* startup_count alone; a sample inside [min - limit, max + limit] changes none
\* of min, max and scale_factor.
C8_MaxUpdateInPlace ==
    [][ sThrottle.startup_count > THROTTLE_START_TIME =>
          /\ Throttle_filt' > sThrottle.max + THROTTLE_RANGE_LIMIT =>
                 /\ sThrottle'.max = Throttle_filt'
                 /\ sThrottle'.scale_factor
                        = (CmdOne * SfDen) \div (sThrottle'.max - sThrottle'.min)
                 /\ sThrottle'.min = sThrottle.min
                 /\ sThrottle'.startup_count = sThrottle.startup_count
                 /\ call'.kind = "normal"
          /\ (/\ Throttle_filt' >= sThrottle.min - THROTTLE_RANGE_LIMIT
              /\ Throttle_filt' <= sThrottle.max + THROTTLE_RANGE_LIMIT) =>
                 /\ sThrottle'.min = sThrottle.min
                 /\ sThrottle'.max = sThrottle.max
                 /\ sThrottle'.scale_factor = sThrottle.scale_factor
      ]_vars

\* C8 witness: a call in settled Normal state has raised max to its sample.
C8_Witness ==
    /\ call.kind = "normal"
    /\ ~call.calibrated
    /\ call.raised
    /\ sThrottle.max = Throttle_filt
    /\ sThrottle.startup_count = THROTTLE_START_TIME + 1

\* C9: the min a calibration yields depends on the samples of its own
\* averaging window only: it is what a fresh channel computes from them.
C9_MinFromWindowOnly ==
    call.calibrated => call.cal_min = SaneMin(call.win_sum \div WindowLength)

(***************************************************************************)
(* Properties of main.c, checked under SpecMain.                           *)
(***************************************************************************)
\* The duties MAIN_MotorISR computes when the debug ramp stands at angle r
RampDuties(r) ==
    LET sc == CORDIC_CalcSinCos(2 * r - AngleSteps)
        ab == FOC_Ipark(750, 0, sc)
    IN  FOC_SVM(ab.alpha, ab.beta)

C14_SlowContextFeeds == [][AppTick => wdt'.last = "app"]_vars

\* C14 (amended): the watchdog is fed by the infinite loop of main(), once per
\* iteration, before the command polling and the telemetry transmission of
\* that iteration; an invocation of MAIN_AppTimerISR never feeds it.
C14_IdleLoopFeeds ==
    [][ /\ AppTick => wdt' = wdt
        /\ wdt' # wdt => (main_pc = "feed" /\ main_pc' = "usb")
        /\ (main_pc = "feed" /\ main_pc' # main_pc) =>
               /\ wdt'.last = "main"
               /\ wdt'.feeds = IF wdt.feeds < MaxFeeds THEN wdt.feeds + 1 ELSE wdt.feeds
        /\ main_pc' # main_pc =>
               <<main_pc, main_pc'>> \in {<<"feed", "usb">>, <<"usb", "live">>,
                                          <<"live", "feed">>}
      ]_vars

\* C14 witness: the slow context has run and published a torque reference, the
\* watchdog has been fed MaxFeeds times, and every feed came from main().
C14_Witness ==
    /\ wdt.feeds = MaxFeeds
    /\ wdt.last = "main"
    /\ Mctrl.ThrottleCommand # 0
    /\ led_timer # 0

(***************************************************************************)
(* Properties of the interrupt contexts, checked under SpecPreempt.        *)
(***************************************************************************)
\* C11: Mctrl.ThrottleCommand is written only by MAIN_AppTimerISR, by the one
\* store that ends the invocation, as the whole value THROTTLE_GetCommand
\* returned; a fast period that reads it, wherever it preempts the slow
\* context, gets the value of the last completed store.
C11_ThrottleCommandWhole ==
    [][ /\ Mctrl'.ThrottleCommand # Mctrl.ThrottleCommand =>
               (Top = "app" /\ pc["app"] = "store")
        /\ (pc["app"] = "store" /\ pc'["app"] = "idle") =>
               Mctrl'.ThrottleCommand = app_cmd
        /\ (pc["app"] # "store" /\ pc'["app"] # "idle") =>
               Mctrl'.ThrottleCommand = Mctrl.ThrottleCommand
        /\ (pc["motor"] = "foc" /\ pc'["motor"] = "idle") =>
               /\ cmd_seen'.val = cmd_done
               /\ cmd_seen'.val \in Commands
      ]_vars

\* C11 witness: the fast context has preempted the slow context between the
\* call of THROTTLE_GetCommand and the store, and has read the value of the
\* previous store, which differs from the value about to be stored.
C11_Witness ==
    /\ Top = "app"
    /\ pc["app"] = "store"
    /\ cmd_seen.during = "store"
    /\ cmd_done # 0
    /\ cmd_seen.val = cmd_done
    /\ app_cmd # cmd_seen.val

\* C12: when the three accessor reads of a fast period are done, the angle,
\* speed and sensor code in Mobv are those of one Rotor Estimator state, the
\* one HALL_IncAngle left in this period; the estimator does not change
\* between HALL_IncAngle and the last read.
C12_ConsistentSnapshot ==
    /\ pc["motor"] \in {"idle", "foc"} =>
           /\ Mobv.RotorAngle = snap.Angle
           /\ Mobv.RotorSpeed_eHz = snap.Speed
           /\ Mobv.HallState = snap.State
    /\ pc["motor"] \in {"angle", "speed", "state", "foc"} => HallSensor = snap

\* C12 witness: the fast context has preempted the sensor-edge handler before
\* its update and has read all three observations, after an earlier edge.
C12_Witness ==
    /\ Active("hall")
    /\ Top = "motor"
    /\ pc["motor"] = "foc"
    /\ Mobv.HallState = 3
    /\ hall_in.code = 1
    /\ Mobv.RotorAngle # HallTable[3]

\* C13: PRIO_PWM < PRIO_HALL < PRIO_APPTIMER, and in every reachable state the
\* fast context is interrupted by nothing, the sensor-edge handler by the fast
\* context only, and the slow context by the sensor-edge handler and the fast
\* context only.
C13_PriorityOrder ==
    /\ PRIO_PWM < PRIO_HALL /\ PRIO_HALL < PRIO_APPTIMER
    /\ stack[1] = "main"
    /\ \A i \in 1..Len(stack) : \A j \in 1..Len(stack) :
           i < j =>
               /\ stack[i] # "motor"
               /\ stack[i] = "hall" => stack[j] = "motor"
               /\ stack[i] = "app" => stack[j] \in {"hall", "motor"}
               /\ stack[j] # "main"

\* C13 witness: the slow context is interrupted by the sensor-edge handler,
\* which is interrupted by the fast context.
C13_Witness ==
    /\ stack = <<"main", "app", "hall", "motor">>
    /\ pc["app"] # "idle" /\ pc["hall"] = "update" /\ pc["motor"] # "idle"

(***************************************************************************)
(* Properties of the pulse-rate conditioner, checked under SpecPas.        *)
(***************************************************************************)
\* C15: in a call for channel 1 or 2, a reading that differs from the last
\* observed one updates the filtered speed and resets the elapsed-time counter
\* to 0; an unchanged reading adds exactly 1 to the counter and leaves the
\* filtered speed alone.
C15_EveryLevelChange ==
    [][ (PasProcess /\ pas_call'.thrnum \in {1, 2}) =>
            IF pas_call'.reading # sPasThrottle.last_reading
            THEN /\ pas_call'.updated
                 /\ sPasThrottle'.time_counter = 0
            ELSE /\ sPasThrottle'.time_counter = sPasThrottle.time_counter + 1
                 /\ sPasThrottle'.filtered_speed = sPasThrottle.filtered_speed
      ]_vars

\* C16: the update of the filtered speed takes the reciprocal of the elapsed
\* time, so from the same old filtered speed no shorter elapsed time gives a
\* smaller new filtered speed than the elapsed time of this update gave.
C16_ShorterIsFaster ==
    pas_call.updated =>
        \A t \in 0..MaxTime :
            t < pas_call.elapsed =>
                (t * PAS_FILTER_NUM
                   + pas_call.old_speed * (PAS_FILTER_DEN - PAS_FILTER_NUM))
                       \div PAS_FILTER_DEN >= sPasThrottle.filtered_speed

\* C17: after every call for channel 1 or 2 the caller has the output,
\* filtered_speed * scale_factor clamped to [THROTTLE_OUTPUT_MIN,
\* THROTTLE_OUTPUT_MAX], as the value the call returned.
C17_OutputAvailable ==
    pas_call.thrnum \in {1, 2} =>
        /\ pas_ret.has
        /\ pas_ret.val =
               LET o == sPasThrottle.filtered_speed * sPasThrottle.scale_factor
               IN  IF o < THROTTLE_OUTPUT_MIN THEN THROTTLE_OUTPUT_MIN
                   ELSE IF o > THROTTLE_OUTPUT_MAX THEN THROTTLE_OUTPUT_MAX ELSE o

\* C18: a call of throttle_pas_process changes none of sThrottle (latch, min,
\* max, scale_factor, startup_count) and prev_output, and its output is the
\* clamped product whatever the latch and the last analog output are; a call
\* of throttle_process changes nothing of sPasThrottle.
C18_PathsDisjoint ==
    [][ /\ PasProcess =>
              /\ sThrottle' = sThrottle
              /\ prev_output' = prev_output
              /\ pas_call'.thrnum \in {1, 2} =>
                     pas_call'.thr_output =
                         LET o == sPasThrottle'.filtered_speed * sPasThrottle'.scale_factor
                         IN  IF o < THROTTLE_OUTPUT_MIN THEN THROTTLE_OUTPUT_MIN
                             ELSE IF o > THROTTLE_OUTPUT_MAX THEN THROTTLE_OUTPUT_MAX
                             ELSE o
        /\ (AnalogStartup \/ AnalogNormal) => sPasThrottle' = sPasThrottle
      ]_vars

\* C18 witness: with the analog channel in Normal state, its latch off and its
\* last output 0, a pulse-rate call computes an output that is non-zero and
\* more than THROTTLE_SLEW_RATE above the last analog output.
C18_Witness ==
    /\ pas_call.thrnum \in {1, 2}
    /\ sThrottle.startup_count > THROTTLE_START_TIME
    /\ sThrottle.state = 0
    /\ sPasThrottle.filtered_speed > 0
    /\ pas_call.thr_output > prev_output + THROTTLE_SLEW_RATE

\* C19: a call for channel 2 leaves the conditioner state of channel 1
\* unchanged, and a call for channel 1 that of channel 2.
C19_ChannelsIndependent ==
    [][ /\ (PasProcess /\ pas_call'.thrnum = 2) => PasChannel(1)' = PasChannel(1)
        /\ (PasProcess /\ pas_call'.thrnum = 1) => PasChannel(2)' = PasChannel(2)
      ]_vars

(***************************************************************************)
(* Properties of the Rotor Estimator, checked under SpecRotor.             *)
(***************************************************************************)
\* C20: after every tick and every sensor edge the accumulated angle is in
\* [0, 1), for speeds of either sign and of more than a revolution per period,
\* and so is the angle the fast context has read into Mobv.RotorAngle.
C20_AngleInRange ==
    /\ 0 <= HallSensor.Angle /\ HallSensor.Angle < AngleSteps
    /\ 0 <= Mobv.RotorAngle /\ Mobv.RotorAngle < AngleSteps

\* C20 witness: with a backward speed of more than two revolutions per period
\* the angle has wrapped below zero and the fast context has read it.
C20_Witness ==
    /\ Mobv.RotorSpeed_eHz = -25
    /\ Mobv.HallState = 1
    /\ Mobv.RotorAngle = AngleSteps - 1
    /\ HallSensor.Angle = Mobv.RotorAngle

(***************************************************************************)
(* C23.  The main output enable bit follows the debug hooks: every run of  *)
(* the slow context makes MOE equal to bit 0 of DBG_Flags and nothing else *)
(* writes MOE, so a hook takes effect within one slow period; a hook       *)
(* changes only bit 0 of DBG_Flags (set by enable, cleared by disable) and *)
(* returns RETVAL_OK.                                                      *)
(***************************************************************************)
C23_OutputFollowsFlag ==
    [][/\ led_timer' # led_timer => MOE' = DBG_Flags % 2
       /\ led_timer' = led_timer => MOE' = MOE
       /\ (hook' # hook \/ DBG_Flags' # DBG_Flags) =>
              /\ hook'.ret = RETVAL_OK
              /\ DBG_Flags' \div 2 = DBG_Flags \div 2
              /\ DBG_Flags' % 2 = (IF hook'.name = "enable" THEN 1 ELSE 0)]_vars

\* The disable hook has returned and the output is still enabled: the slow
\* context has not run since
C23_Witness ==
    /\ hook = [name |-> "disable", ret |-> RETVAL_OK]
    /\ DBG_Flags % 2 = 0
    /\ MOE = 1

(***************************************************************************)
(* C25.  After every run of the slow context led_timer is in               *)
(* [0, LED_PERIOD - 1]; the indicator is low exactly while led_timer is at *)
(* least LED_OFF_TICK, that is from the tick that counts LED_OFF_TICK to   *)
(* the tick that counts LED_PERIOD, which drives it high and resets the    *)
(* counter.                                                                *)
(***************************************************************************)
C25_LedPeriod ==
    /\ led_timer \in 0..(LED_PERIOD - 1)
    /\ GLED = (IF led_timer >= LED_OFF_TICK THEN 0 ELSE 1)

\* The indicator is low in the second part of a period, with the output enabled
C25_Witness ==
    /\ GLED = 0
    /\ led_timer = LED_PERIOD - 1
    /\ MOE = 1

(***************************************************************************)
(* C26.  Whenever a call computes a Normal-state command, the minimum is   *)
(* in [0.3, 1.0] V, the maximum is at least 1.5 V, max - min is at least   *)
(* 0.5 V and scale_factor is 1 / (max - min); a call that does not         *)
(* calibrate never lowers the maximum.                                     *)
(***************************************************************************)
C26_ScaleDefined ==
    [][call'.kind = "normal" =>
          /\ sThrottle'.min >= MinSaneLow /\ sThrottle'.min <= MinSaneHigh
          /\ sThrottle'.max >= MaxSaneLow
          /\ sThrottle'.max - sThrottle'.min >= MaxSaneLow - MinSaneHigh
          /\ sThrottle'.scale_factor =
                 (CmdOne * SfDen) \div (sThrottle'.max - sThrottle'.min)
          /\ call'.calibrated =>
                 (call'.cal_max >= MaxSaneLow /\ call'.cal_max <= MaxSaneHigh)
          /\ ~call'.calibrated => sThrottle'.max >= sThrottle.max]_vars

\* A Normal-state command computed with an averaged minimum and a maximum
\* that the call has raised above the calibration range
C26_Witness ==
    /\ call.kind = "normal"
    /\ ~call.calibrated
    /\ call.raised
    /\ sThrottle.max > MaxSaneHigh
    /\ sThrottle.min # THROTTLE_MIN_DEFAULT
    /\ ret > 0

(***************************************************************************)
(* C27.  throttle_process returns a non-zero value only from a call that   *)
(* computes a Normal-state command and leaves the latch on: with the latch *)
(* off after a call, or in a call of the startup sequence or one that      *)
(* restarts it, the returned value is exactly 0.                           *)
(***************************************************************************)
C27_ZeroUnlessLatched ==
    /\ ret # 0 => (sThrottle.state = 1 /\ call.kind = "normal")
    /\ ret >= 0

\* A Normal-state call with a command above 0% and below the upper
\* threshold, the latch off: 0 is returned
C27_Witness ==
    /\ call.kind = "normal"
    /\ call.clamped > THROTTLE_HYST_LOW
    /\ call.clamped < THROTTLE_HYST_HIGH
    /\ sThrottle.state = 0
    /\ ret = 0

(***************************************************************************)
(* C29.  In the Normal state, a call whose clamped command c is at least   *)
(* THROTTLE_HYST_HIGH and which does not restart the startup sequence      *)
(* returns the previous returned value plus THROTTLE_SLEW_RATE while c is  *)
(* more than one step above it, and c otherwise: for a constant input the  *)
(* output rises by exactly one step per call until it reaches c, then      *)
(* stays at c, and never exceeds c.                                        *)
(***************************************************************************)
C29_SlewConverges ==
    [][(/\ sThrottle.startup_count > THROTTLE_START_TIME
        /\ call'.kind = "normal"
        /\ call'.clamped >= THROTTLE_HYST_HIGH) =>
          /\ sThrottle'.state = 1
          /\ ret' = (IF call'.clamped - ret > THROTTLE_SLEW_RATE
                     THEN ret + THROTTLE_SLEW_RATE
                     ELSE call'.clamped)
          /\ ret' <= call'.clamped]_vars

\* The output has reached a command more than two steps above 0
C29_Witness ==
    /\ call.kind = "normal"
    /\ ~call.calibrated
    /\ call.clamped >= THROTTLE_HYST_HIGH
    /\ ret = call.clamped
    /\ ret > 2 * THROTTLE_SLEW_RATE
    /\ ret < THROTTLE_OUTPUT_MAX

(***************************************************************************)
(* C24.  A bootloader request is served exactly once.  A boot that finds   *)
(* the flag clears it and enters the bootloader; a boot that does not find *)
(* it starts the application and leaves the backup register as it is; the  *)
(* number of bootloader entries plus the request still in the register is  *)
(* the number of requests, so a reset without a new request never enters   *)
(* the bootloader.                                                         *)
(***************************************************************************)
C24_ServedOnce ==
    [][/\ boot_mode = "reset" =>
            IF BKP0R = BOOTLOADER_RESET_FLAG
            THEN boot_mode' = "bootloader" /\ BKP0R' = 0
            ELSE boot_mode' = "app" /\ BKP0R' = BKP0R
       /\ boot_log'.entries + (IF BKP0R' = BOOTLOADER_RESET_FLAG THEN 1 ELSE 0)
              = boot_log'.requests
       /\ BKP0R' = BOOTLOADER_RESET_FLAG => boot_mode' = "reset"]_vars

\* The application runs again after a served request and a later reboot
C24_Witness ==
    /\ boot_mode = "app"
    /\ boot_log = [requests |-> 1, entries |-> 1, reboots |-> 1]
    /\ BKP0R = 0

(***************************************************************************)
(* C30.  After any sequence of throttle_switch_type calls the edge         *)
(* interrupt of a channel is unmasked if and only if the type last set for *)
(* the channel is pulse-rate.                                              *)
(***************************************************************************)
C30_MaskFollowsType ==
    \A ch \in {1, 2} : (ExtiLine(ch) \in EXTI_IMR) <=> (thr_type[ch] = "pas")

C21_GlitchIgnored ==
    [][hall_code' \in {0, 7} =>
          /\ HallSensor'.State = HallSensor.State
          /\ HallSensor'.Angle = HallSensor.Angle
          /\ HallSensor'.Speed = HallSensor.Speed
          /\ HallSensor'.Stamp = HallSensor.Stamp
          /\ HallSensor'.Glitches =
                 (IF HallSensor.Glitches < MaxGlitches THEN HallSensor.Glitches + 1
                                                       ELSE HallSensor.Glitches)]_vars

\* A second glitch in a row, with the rotor moving: the state of the last
\* valid edge is kept
C21_Witness ==
    /\ hall_code = 7
    /\ HallSensor.Glitches = 2
    /\ HallSensor.State = 3
    /\ HallSensor.Speed = 13
    /\ HallSensor.Stamp = 2

(***************************************************************************)
(* C22.  A commissioning run that has seen fewer than                      *)
(* HALL_DETECT_MIN_TRANSITIONS transitions when HALL_DETECT_TIMEOUT_MS has *)
(* elapsed ends as failed, and every entry of the calibration table is     *)
(* what it was before the run; while a run is in progress the table is     *)
(* not written either.                                                     *)
(***************************************************************************)
C22_TimeoutKeepsTable ==
    /\ (detect.state = "running" /\ detect.elapsed >= HALL_DETECT_TIMEOUT_MS) =>
           detect.transitions >= HALL_DETECT_MIN_TRANSITIONS
    /\ detect.state = "failed" =>
           /\ detect.transitions < HALL_DETECT_MIN_TRANSITIONS
           /\ \A c \in ValidCodes : HallCalibrationTable[c] = detect.before[c]
    /\ detect.state = "running" => HallCalibrationTable = detect.before
    /\ detect.state = "done" => detect.transitions >= HALL_DETECT_MIN_TRANSITIONS

\* A run that timed out one transition short, after an earlier run had
\* replaced the table that was loaded
C22_Witness ==
    /\ detect.state = "failed"
    /\ detect.transitions = HALL_DETECT_MIN_TRANSITIONS - 1
    /\ detect.n[3] > 0
    /\ detect.sum[3] \div detect.n[3] # HallCalibrationTable[3]
    /\ HallCalibrationTable # HallTable

====
